---- MODULE Spec2Model ----
(***************************************************************************)
(* Model of the duckdb_demo repository: prepare.py (ingestion of the text  *)
(* files of a directory into the DuckDB table `texts`) and find.py (the    *)
(* interactive nearest-neighbour query loop over that table).              *)
(*                                                                         *)
(* Text is modelled as a sequence of tokens.  A token is either one        *)
(* character (" " or a letter) or one of the fixed phrases the code looks  *)
(* for, kept whole: the two Gutenberg marker phrases (in upper and lower   *)
(* case), the metadata prefixes "Title: " and "Author: " and the words     *)
(* exit / quit of the query loop.                                          *)
(***************************************************************************)
EXTENDS Integers, Sequences, FiniteSets, TLC

VARIABLES
    dbExists,      \* the file embeddings.db exists
    tableExists,   \* the table `texts` exists in it
    store,         \* the rows of the table `texts`
    proc,          \* the process that runs: "none", "prepare" or "find"
    model,         \* the embedding model the running process has loaded
    todo,          \* prepare: the files the loop has still to visit
    totals,        \* prepare: the four counters of main()
    n_neighbors,   \* find: the -n argument
    out,           \* what the last step did and printed
    before,        \* the rows, counters and loop position when it began
    ingested,      \* the (filename, file) pairs an insertion was made for
    parseIn,       \* parse_file on its own: the file given
    parseOut       \* parse_file on its own: the value returned

vars == <<dbExists, tableExists, store, proc, model, todo, totals,
          n_neighbors, out, before, ingested, parseIn, parseOut>>

----------------------------------------------------------------------------
(* Tokens and the string functions the code uses *)

SP == " "
StartMarker == "START OF THE PROJECT GUTENBERG EBOOK"
EndMarker == "END OF THE PROJECT GUTENBERG EBOOK"
StartMarkerLower == "start of the project gutenberg ebook"
EndMarkerLower == "end of the project gutenberg ebook"
TitlePrefix == "Title: "
AuthorPrefix == "Author: "
\* the prefixes once strip() has removed their final blank
TitleBare == "Title:"
AuthorBare == "Author:"

\* str.upper(), token by token
Upper(t) ==
    CASE t = StartMarkerLower -> StartMarker
      [] t = EndMarkerLower -> EndMarker
      [] t = "x" -> "X"
      [] t = "y" -> "Y"
      [] t = "z" -> "Z"
      [] t = "exit" -> "EXIT"
      [] t = "quit" -> "QUIT"
      [] t = TitlePrefix -> "TITLE: "
      [] t = AuthorPrefix -> "AUTHOR: "
      [] t = TitleBare -> "TITLE:"
      [] t = AuthorBare -> "AUTHOR:"
      [] OTHER -> t

\* str.lower(), token by token
Lower(t) ==
    CASE t = StartMarker -> StartMarkerLower
      [] t = EndMarker -> EndMarkerLower
      [] t = "X" -> "x"
      [] t = "Y" -> "y"
      [] t = "Z" -> "z"
      [] t = "EXIT" -> "exit"
      [] t = "QUIT" -> "quit"
      [] t = TitlePrefix -> "title: "
      [] t = AuthorPrefix -> "author: "
      [] t = TitleBare -> "title:"
      [] t = AuthorBare -> "author:"
      [] OTHER -> t

UpperStr(s) == [i \in 1..Len(s) |-> Upper(s[i])]
LowerStr(s) == [i \in 1..Len(s) |-> Lower(s[i])]

RECURSIVE LStrip(_)
LStrip(s) == IF s # <<>> /\ Head(s) = SP THEN LStrip(Tail(s)) ELSE s

RECURSIVE RStrip(_)
\* a final "Title: " or "Author: " loses its blank
RStrip(s) ==
    IF s = <<>> THEN s
    ELSE IF s[Len(s)] = SP THEN RStrip(SubSeq(s, 1, Len(s) - 1))
    ELSE IF s[Len(s)] = TitlePrefix
    THEN Append(SubSeq(s, 1, Len(s) - 1), TitleBare)
    ELSE IF s[Len(s)] = AuthorPrefix
    THEN Append(SubSeq(s, 1, Len(s) - 1), AuthorBare)
    ELSE s

\* str.strip()
Strip(s) == RStrip(LStrip(s))

\* `phrase in s`
Contains(s, phrase) == \E i \in 1..Len(s) : s[i] = phrase

\* s.startswith(prefix)
StartsWith(s, prefix) == s # <<>> /\ s[1] = prefix

RECURSIVE Remove(_, _)
\* s.replace(phrase, "")
Remove(s, phrase) ==
    IF s = <<>> THEN <<>>
    ELSE IF Head(s) = phrase THEN Remove(Tail(s), phrase)
    ELSE <<Head(s)>> \o Remove(Tail(s), phrase)

----------------------------------------------------------------------------
(* prepare.py: parse_file *)

Unknown == <<"Unknown">>

\* "START OF THE PROJECT GUTENBERG EBOOK" in line.upper()
IsStartLine(line) == Contains(UpperStr(line), StartMarker)

\* "END OF THE PROJECT GUTENBERG EBOOK" in line.upper()
IsEndLine(line) == Contains(UpperStr(line), EndMarker)

\* the metadata branch of the loop body (lines 54-57)
MetaStep(st, stripped_line) ==
    IF StartsWith(stripped_line, TitlePrefix)
    THEN [st EXCEPT !.title = Strip(Remove(stripped_line, TitlePrefix))]
    ELSE IF StartsWith(stripped_line, AuthorPrefix)
    THEN [st EXCEPT !.author = Strip(Remove(stripped_line, AuthorPrefix))]
    ELSE st

\* the content branch without the test of line 69
KeepAll(st, line_num, stripped_line) ==
    IF st.start_parsing
    THEN [st EXCEPT !.lines = Append(@, <<line_num, stripped_line>>)]
    ELSE st

\* the content branch of the loop body (lines 68-70)
ContentStep(st, line_num, stripped_line) ==
    IF st.start_parsing /\ stripped_line # <<>>
    THEN [st EXCEPT !.lines = Append(@, <<line_num, stripped_line>>)]
    ELSE st

RECURSIVE ParseLoop(_, _, _)
\* the for loop of parse_file from line number line_num on (lines 49-70)
ParseLoop(file_content, line_num, st) ==
    IF line_num > Len(file_content) THEN st
    ELSE LET line == file_content[line_num]
             stripped_line == Strip(line)
             st1 == MetaStep(st, stripped_line)
         IN  IF IsStartLine(line)
             THEN ParseLoop(file_content, line_num + 1,
                            [st1 EXCEPT !.start_parsing = TRUE])
             ELSE IF IsEndLine(line) THEN st1
             ELSE ParseLoop(file_content, line_num + 1,
                            ContentStep(st1, line_num, stripped_line))

\* parse_file(filepath) for a file that can be read: (author, title, lines)
parse_file(file_content) ==
    LET st == ParseLoop(file_content, 1,
                        [author |-> Unknown, title |-> Unknown,
                         lines |-> <<>>, start_parsing |-> FALSE])
    IN  [author |-> st.author, title |-> st.title, lines |-> st.lines]


----------------------------------------------------------------------------
(* The texts/ directory and the embedding model *)

FileNames == {"a.txt", "b.txt"}

\* A file with title, both markers, padded and blank lines, and a line
\* after the end marker: its content is (3, x), (5, y).
DocA ==
    [readable |-> TRUE,
     text |-> << <<TitlePrefix, "x">>, <<StartMarker>>, <<SP, "x", SP>>, <<>>,
                 <<"y">>, <<EndMarker>>, <<"x">> >>]

\* A file with an author, a lower-case start marker and no end marker: its
\* content is (3, y), (4, z).
DocB ==
    [readable |-> TRUE,
     text |-> << <<AuthorPrefix, "y">>, <<StartMarkerLower>>, <<"y">>,
                 <<"z", SP>> >>]

\* A file without markers: no content.
DocEmpty == [readable |-> TRUE, text |-> << <<"x">>, <<SP>> >>]

\* A file open()/readlines() raises on (not UTF-8, unreadable).
DocBad == [readable |-> FALSE, text |-> <<>>]

Files == {DocA, DocB, DocEmpty, DocBad}

\* what os.listdir can show: any of the names, each with any content
Dirs == UNION {[S -> Files] : S \in SUBSET FileNames}

NoFiles == [f \in {} |-> DocEmpty]

\* The model both scripts load: SentenceTransformer('all-MiniLM-L6-v2').
ModelName == "all-MiniLM-L6-v2"
NoModel == "none"

\* model.encode(text).tolist() for one text.  The model returns vectors of
\* one fixed length and of unit norm, so never the zero vector; the vectors
\* here are integer stand-ins of length 2 that keep the directions apart
\* (cosine similarity does not depend on the norm).
EncodeOne(m, text) ==
    CASE text = <<"x">> -> <<1, 0>>
      [] text = <<"y">> -> <<1, 1>>
      [] text = <<"z">> -> <<0, 1>>
      [] OTHER -> <<-1, 1>>

\* model.encode(texts): one vector per text, in order
Encode(m, texts) == [i \in 1..Len(texts) |-> EncodeOne(m, texts[i])]

----------------------------------------------------------------------------
(* The table `texts` *)

Key(row) == <<row.filename, row.line_number>>

\* CREATE OR REPLACE TABLE: the rows are lost
CreateTableReplace(exists, rows) == {}

\* CREATE TABLE IF NOT EXISTS texts (...): the rows of an existing table stay
CreateTable(exists, rows) == IF exists THEN rows ELSE {}

\* INSERT OR REPLACE: the last write wins
InsertOrReplace(rows, row) ==
    {r \in rows : Key(r) # Key(row)} \cup {row}

\* INSERT OR IGNORE INTO texts ... with PRIMARY KEY (filename, line_number)
InsertOrIgnore(rows, row) ==
    IF \E r \in rows : Key(r) = Key(row) THEN rows ELSE rows \cup {row}

RECURSIVE ExecuteManyUntilDuplicate(_, _)
\* a batch that stops at the first row whose key the table holds
ExecuteManyUntilDuplicate(rows, data) ==
    IF data = <<>> THEN rows
    ELSE IF Key(Head(data)) \in {Key(r) : r \in rows} THEN rows
    ELSE ExecuteManyUntilDuplicate(rows \cup {Head(data)}, Tail(data))

RECURSIVE ExecuteMany(_, _)
\* conn.executemany(INSERT OR IGNORE ..., data_to_insert)
ExecuteMany(rows, data) ==
    IF data = <<>> THEN rows
    ELSE ExecuteMany(InsertOrIgnore(rows, Head(data)), Tail(data))

\* SELECT count(*) FROM texts
Count(rows) == Cardinality(rows)

\* counting every offered row as inserted
CountsAllInserted(count_before, count_after, n) ==
    [inserted |-> n, skipped |-> 0]

\* inserted_count and skipped_count (lines 148-149)
Counts(count_before, count_after, n) ==
    [inserted |-> count_after - count_before,
     skipped |-> n - (count_after - count_before)]

\* data_to_insert (lines 128-133)
DataToInsert(filename, parsed, embeddings) ==
    [i \in 1..Len(parsed.lines) |->
        [line_number |-> parsed.lines[i][1],
         filename |-> filename,
         author |-> parsed.author,
         title |-> parsed.title,
         content |-> parsed.lines[i][2],
         embedding |-> embeddings[i]]]

----------------------------------------------------------------------------
(* find.py: the query of lines 62-73 *)

RECURSIVE Dot(_, _)
Dot(a, b) ==
    IF a = <<>> THEN 0 ELSE Head(a) * Head(b) + Dot(Tail(a), Tail(b))

\* list_cosine_similarity(a, q) >= list_cosine_similarity(b, q), decided
\* exactly: dot(a,q)/|a| >= dot(b,q)/|b|, the factor 1/|q| being common
SimGE(a, b, q) ==
    LET xa == Dot(a, q)
        xb == Dot(b, q)
        na == Dot(a, a)
        nb == Dot(b, b)
    IN  IF xa >= 0 /\ xb >= 0 THEN xa * xa * nb >= xb * xb * na
        ELSE IF xa >= 0 THEN TRUE
        ELSE IF xb >= 0 THEN FALSE
        ELSE xa * xa * nb <= xb * xb * na

\* list_cosine_similarity raises on two lists of different lengths: with
\* the one model of both scripts the lengths always agree
SearchFails(rows, q) == \E r \in rows : Len(r.embedding) # Len(q)

\* the rows no other row beats, lowest similarity first
Lowest(rows, q) ==
    {r \in rows : \A r2 \in rows : SimGE(r2.embedding, r.embedding, q)}

\* the rows no other row beats, highest similarity first
Highest(rows, q) ==
    {r \in rows : \A r2 \in rows : SimGE(r.embedding, r2.embedding, q)}

RECURSIVE OrderByAsc(_, _)
\* ORDER BY similarity ASC
OrderByAsc(rows, q) ==
    IF rows = {} THEN {<<>>}
    ELSE UNION {{<<r>> \o s : s \in OrderByAsc(rows \ {r}, q)} :
                   r \in Lowest(rows, q)}

RECURSIVE OrderByDesc(_, _)
\* ORDER BY similarity DESC: rows of equal similarity come in any order
OrderByDesc(rows, q) ==
    IF rows = {} THEN {<<>>}
    ELSE UNION {{<<r>> \o s : s \in OrderByDesc(rows \ {r}, q)} :
                   r \in Highest(rows, q)}

\* LIMIT ? with a negative value is rejected
LimitFails(k) == k < 0

\* conn.execute(...) of lines 62-73 raises
ExecuteFails(rows, q, k) == LimitFails(k) \/ SearchFails(rows, q)

\* LIMIT k
Limit(s, k) == SubSeq(s, 1, IF k < Len(s) THEN k ELSE Len(s))

\* the result sets fetchall() can return
Search(rows, q, k) == {Limit(s, k) : s \in OrderByDesc(rows, q)}

----------------------------------------------------------------------------
(* find.py: the tests of the query loop *)

\* query.lower() in ('exit', 'quit')
IsExit(query) == LowerStr(query) \in {<<"exit">>, <<"quit">>}

\* `not query`
IsEmptyStr(query) == query = <<>>

\* not query.strip()
IsBlank(query) == Strip(query) = <<>>

\* what input() can return
Queries ==
    {<<>>, <<SP, SP>>, <<"exit">>, <<"QUIT">>, <<SP, "exit">>,
     <<"x">>, <<"z">>, <<"x", SP, "y">>}

----------------------------------------------------------------------------
(* State *)

MaxK == 3

ZeroTotals ==
    [files_loaded |-> 0, lines_processed |-> 0,
     lines_inserted |-> 0, lines_skipped |-> 0]

\* the record of a step: what it printed (ev, filename, inserted, skipped,
\* results), the locals it computed (offered = data_to_insert, count_before,
\* qvec = query_embedding) and whether it called the embedder or the store
Quiet ==
    [ev |-> "none", filename |-> "", query |-> <<>>, offered |-> <<>>,
     count_before |-> 0, inserted |-> 0, skipped |-> 0, encoded |-> FALSE,
     asked |-> FALSE, searched |-> FALSE, qvec |-> <<>>, k |-> 0,
     results |-> <<>>]

Snapshot ==
    [store |-> store, totals |-> totals, todo |-> todo, proc |-> proc,
     ingested |-> ingested]

Init ==
    /\ dbExists = FALSE
    /\ tableExists = FALSE
    /\ store = {}
    /\ proc = "none"
    /\ model = NoModel
    /\ todo = NoFiles
    /\ totals = ZeroTotals
    /\ n_neighbors = 0
    /\ out = Quiet
    /\ before = [store |-> {}, totals |-> ZeroTotals, todo |-> NoFiles,
                 proc |-> "none", ingested |-> {}]
    /\ ingested = {}
    /\ parseIn = <<>>
    /\ parseOut = parse_file(<<>>)

\* the process ends (return, sys.exit or an exception nobody catches)
ProcessEnds ==
    /\ proc' = "none"
    /\ model' = NoModel
    /\ todo' = NoFiles
    /\ totals' = ZeroTotals
    /\ n_neighbors' = 0

----------------------------------------------------------------------------
(* prepare.py: main *)

\* line 83 raises: nothing is opened or created
PrepareLoadFails ==
    /\ proc = "none"
    /\ out' = [Quiet EXCEPT !.ev = "prepare: exception loading model"]
    /\ before' = Snapshot
    /\ ProcessEnds
    /\ UNCHANGED <<dbExists, tableExists, store, ingested, parseIn, parseOut>>

\* lines 83-97 when texts/ is missing or holds no .txt file: the table is
\* created and main returns
PrepareNothingToDo ==
    /\ proc = "none"
    /\ \E missing \in BOOLEAN :
         out' = [Quiet EXCEPT !.ev = IF missing THEN "directory not found"
                                     ELSE "no text files found"]
    /\ dbExists' = TRUE
    /\ tableExists' = TRUE
    /\ store' = CreateTable(tableExists, store)
    /\ before' = Snapshot
    /\ ProcessEnds
    /\ UNCHANGED <<ingested, parseIn, parseOut>>

\* lines 76-97 when texts/ holds .txt files: model loaded, database opened,
\* table created, the files listed
PrepareStart ==
    /\ proc = "none"
    /\ \E d \in Dirs :
         /\ DOMAIN d # {}
         /\ todo' = d
    /\ model' = ModelName
    /\ dbExists' = TRUE
    /\ tableExists' = TRUE
    /\ store' = CreateTable(tableExists, store)
    /\ proc' = "prepare"
    /\ totals' = ZeroTotals
    /\ out' = [Quiet EXCEPT !.ev = "table created/verified"]
    /\ before' = Snapshot
    /\ UNCHANGED <<n_neighbors, ingested, parseIn, parseOut>>

Rest(f) == [g \in DOMAIN todo \ {f} |-> todo[g]]

\* one pass of the loop, lines 99-105: parse_file raises, main has no handler
PrepareFileParseError ==
    /\ proc = "prepare"
    /\ \E f \in DOMAIN todo :
         /\ ~todo[f].readable
         /\ out' = [Quiet EXCEPT !.ev = "prepare: exception in parse_file",
                                 !.filename = f]
    /\ before' = Snapshot
    /\ ProcessEnds
    /\ UNCHANGED <<dbExists, tableExists, store, ingested, parseIn, parseOut>>

\* one pass of the loop, lines 99-112: no content lines, continue
PrepareFileNoContent ==
    /\ proc = "prepare"
    /\ \E f \in DOMAIN todo :
         /\ todo[f].readable
         /\ parse_file(todo[f].text).lines = <<>>
         /\ todo' = Rest(f)
         /\ out' = [Quiet EXCEPT !.ev = "no content found", !.filename = f]
    /\ totals' = [totals EXCEPT !.files_loaded = @ + 1]
    /\ before' = Snapshot
    /\ UNCHANGED <<dbExists, tableExists, store, proc, model, n_neighbors,
                   ingested, parseIn, parseOut>>

\* one pass of the loop, lines 99-123: model.encode raises, main has no
\* handler
PrepareFileEncodeError ==
    /\ proc = "prepare"
    /\ \E f \in DOMAIN todo :
         /\ todo[f].readable
         /\ parse_file(todo[f].text).lines # <<>>
         /\ out' = [Quiet EXCEPT !.ev = "prepare: exception in encode",
                                 !.filename = f, !.encoded = TRUE]
    /\ before' = Snapshot
    /\ ProcessEnds
    /\ UNCHANGED <<dbExists, tableExists, store, ingested, parseIn, parseOut>>

\* one pass of the loop, lines 99-154: parse, embed, insert, count
PrepareFileInsert ==
    /\ proc = "prepare"
    /\ \E f \in DOMAIN todo :
         LET parsed == parse_file(todo[f].text)
             texts == [i \in 1..Len(parsed.lines) |-> parsed.lines[i][2]]
             embeddings == Encode(model, texts)
             data_to_insert == DataToInsert(f, parsed, embeddings)
             count_before == Count(store)
             rows == ExecuteMany(store, data_to_insert)
             count_after == Count(rows)
             c == Counts(count_before, count_after, Len(data_to_insert))
         IN  /\ todo[f].readable
             /\ parsed.lines # <<>>
             /\ store' = rows
             /\ totals' =
                  [files_loaded |-> totals.files_loaded + 1,
                   lines_processed |-> totals.lines_processed
                                          + Len(parsed.lines),
                   lines_inserted |-> totals.lines_inserted + c.inserted,
                   lines_skipped |-> totals.lines_skipped + c.skipped]
             /\ todo' = Rest(f)
             /\ out' = [Quiet EXCEPT !.ev = "inserted", !.filename = f,
                                     !.offered = data_to_insert,
                                     !.count_before = count_before,
                                     !.inserted = c.inserted,
                                     !.skipped = c.skipped,
                                     !.encoded = TRUE]
             /\ ingested' = ingested \cup {<<f, todo[f]>>}
    /\ before' = Snapshot
    /\ UNCHANGED <<dbExists, tableExists, proc, model, n_neighbors,
                   parseIn, parseOut>>

\* lines 156-162: the loop is over, the totals are printed
PrepareFinish ==
    /\ proc = "prepare"
    /\ DOMAIN todo = {}
    /\ out' = [Quiet EXCEPT !.ev = "processing complete"]
    /\ before' = Snapshot
    /\ ProcessEnds
    /\ UNCHANGED <<dbExists, tableExists, store, ingested, parseIn, parseOut>>

----------------------------------------------------------------------------
(* find.py: main *)

\* lines 25-29: the model cannot be loaded, sys.exit(1)
FindLoadFails ==
    /\ proc = "none"
    /\ out' = [Quiet EXCEPT !.ev = "error loading model"]
    /\ before' = Snapshot
    /\ ProcessEnds
    /\ UNCHANGED <<dbExists, tableExists, store, ingested, parseIn, parseOut>>

\* lines 32-37: a read-only connection to a file that is not there fails,
\* sys.exit(1)
FindConnectFails ==
    /\ proc = "none"
    /\ ~dbExists
    /\ out' = [Quiet EXCEPT !.ev = "error connecting to database"]
    /\ before' = Snapshot
    /\ ProcessEnds
    /\ UNCHANGED <<dbExists, tableExists, store, ingested, parseIn, parseOut>>

\* lines 18-40: arguments parsed, model loaded, database opened read-only.
\* -n is any integer (type=int, no test of its value): here -1, 0 and the
\* values up to MaxK
FindStart ==
    /\ proc = "none"
    /\ dbExists
    /\ \E n \in -1..MaxK : n_neighbors' = n
    /\ model' = ModelName
    /\ proc' = "find"
    /\ out' = [Quiet EXCEPT !.ev = "ready to search"]
    /\ before' = Snapshot
    /\ UNCHANGED <<dbExists, tableExists, store, todo, totals, ingested,
                   parseIn, parseOut>>

\* lines 43-46: input() raises EOFError, break; lines 84-85
FindEOF ==
    /\ proc = "find"
    /\ out' = [Quiet EXCEPT !.ev = "goodbye (end of input)"]
    /\ before' = Snapshot
    /\ ProcessEnds
    /\ UNCHANGED <<dbExists, tableExists, store, ingested, parseIn, parseOut>>

\* lines 44-49: 'exit' or 'quit' in any case, break; lines 84-85
FindExit ==
    /\ proc = "find"
    /\ \E query \in Queries :
         /\ IsExit(query)
         /\ out' = [Quiet EXCEPT !.ev = "goodbye (exit)", !.query = query,
                                 !.asked = TRUE]
    /\ before' = Snapshot
    /\ ProcessEnds
    /\ UNCHANGED <<dbExists, tableExists, store, ingested, parseIn, parseOut>>

\* lines 44-52: a query of blanks, continue
FindBlank ==
    /\ proc = "find"
    /\ \E query \in Queries :
         /\ ~IsExit(query)
         /\ IsBlank(query)
         /\ out' = [Quiet EXCEPT !.ev = "prompt again", !.query = query,
                                 !.asked = TRUE]
    /\ before' = Snapshot
    /\ UNCHANGED <<dbExists, tableExists, store, proc, model, todo, totals,
                   n_neighbors, ingested, parseIn, parseOut>>

\* lines 44-55: model.encode raises, the loop has no handler
FindEncodeError ==
    /\ proc = "find"
    /\ \E query \in Queries :
         /\ ~IsExit(query)
         /\ ~IsBlank(query)
         /\ out' = [Quiet EXCEPT !.ev = "find: exception in encode",
                                 !.query = query, !.asked = TRUE,
                                 !.encoded = TRUE]
    /\ before' = Snapshot
    /\ ProcessEnds
    /\ UNCHANGED <<dbExists, tableExists, store, ingested, parseIn, parseOut>>

\* lines 44-73: conn.execute raises (DuckDB rejects a negative LIMIT, and
\* lists of different lengths), the loop has no handler
FindSearchError ==
    /\ proc = "find"
    /\ \E query \in Queries :
         LET query_embedding == EncodeOne(model, query)
         IN  /\ ~IsExit(query)
             /\ ~IsBlank(query)
             /\ ExecuteFails(store, query_embedding, n_neighbors)
             /\ out' = [Quiet EXCEPT !.ev = "find: exception in execute",
                                     !.query = query, !.asked = TRUE,
                                     !.encoded = TRUE, !.searched = TRUE,
                                     !.qvec = query_embedding,
                                     !.k = n_neighbors]
    /\ before' = Snapshot
    /\ ProcessEnds
    /\ UNCHANGED <<dbExists, tableExists, store, ingested, parseIn, parseOut>>

\* lines 44-82: the query is embedded, the table searched, the matches
\* printed
FindResults ==
    /\ proc = "find"
    /\ \E query \in Queries :
         LET query_embedding == EncodeOne(model, query)
         IN  /\ ~IsExit(query)
             /\ ~IsBlank(query)
             /\ ~ExecuteFails(store, query_embedding, n_neighbors)
             /\ \E results \in Search(store, query_embedding, n_neighbors) :
                  out' = [Quiet EXCEPT !.ev = "found matches",
                                       !.query = query, !.asked = TRUE,
                                       !.encoded = TRUE, !.searched = TRUE,
                                       !.qvec = query_embedding,
                                       !.k = n_neighbors,
                                       !.results = results]
    /\ before' = Snapshot
    /\ UNCHANGED <<dbExists, tableExists, store, proc, model, todo, totals,
                   n_neighbors, ingested, parseIn, parseOut>>

----------------------------------------------------------------------------
(* Specifications *)

Next ==
    \/ PrepareLoadFails
    \/ PrepareNothingToDo
    \/ PrepareStart
    \/ PrepareFileParseError
    \/ PrepareFileNoContent
    \/ PrepareFileEncodeError
    \/ PrepareFileInsert
    \/ PrepareFinish
    \/ FindLoadFails
    \/ FindConnectFails
    \/ FindStart
    \/ FindEOF
    \/ FindExit
    \/ FindBlank
    \/ FindEncodeError
    \/ FindSearchError
    \/ FindResults

Spec == Init /\ [][Next]_vars

\* parse_file on its own, over every file of at most MaxLines lines taken
\* from ParseLines
MaxLines == 4

ParseLines ==
    {<<>>, <<SP>>, <<"x">>, <<SP, "y", SP>>, <<StartMarker>>,
     <<"x", StartMarkerLower>>, <<EndMarker>>, <<EndMarkerLower, SP>>,
     <<StartMarker, SP, EndMarker>>}

ParseFiles == UNION {[1..n -> ParseLines] : n \in 0..MaxLines}

InitParse ==
    /\ dbExists = FALSE
    /\ tableExists = FALSE
    /\ store = {}
    /\ proc = "none"
    /\ model = NoModel
    /\ todo = NoFiles
    /\ totals = ZeroTotals
    /\ n_neighbors = 0
    /\ out = Quiet
    /\ before = [store |-> {}, totals |-> ZeroTotals, todo |-> NoFiles,
                 proc |-> "none", ingested |-> {}]
    /\ ingested = {}
    /\ parseIn \in ParseFiles
    /\ parseOut = parse_file(<<>>)

Parse ==
    /\ out.ev = "none"
    /\ parseOut' = parse_file(parseIn)
    /\ out' = [Quiet EXCEPT !.ev = "parsed"]
    /\ UNCHANGED <<dbExists, tableExists, store, proc, model, todo, totals,
                   n_neighbors, before, ingested, parseIn>>

SpecParse == InitParse /\ [][Parse]_vars

----------------------------------------------------------------------------
(* Properties *)

Keys(rows) == {Key(r) : r \in rows}

Min(a, b) == IF a < b THEN a ELSE b

InsertDone == out.ev = "inserted"

\* the batch of the last insertion, as a set of positions
Offered == 1..Len(out.offered)

\* C1: no two rows of the table share (filename, line_number), and a row
\* offered under a key the table already held leaves the row of that key as
\* it was: author, title, content and embedding of the first write stay.
C1_UniqueKeyFirstWriteWins ==
    /\ \A r1, r2 \in store : Key(r1) = Key(r2) => r1 = r2
    /\ \A i \in Offered : \A r \in before.store :
          Key(r) = Key(out.offered[i]) =>
             /\ r \in store
             /\ \A r2 \in store : Key(r2) = Key(r) =>
                   /\ r2.author = r.author
                   /\ r2.title = r.title
                   /\ r2.content = r.content
                   /\ r2.embedding = r.embedding

\* an insertion offered a row that differs, in content and in embedding,
\* from the row the table held under its key
C1_Witness ==
    /\ InsertDone
    /\ \E i \in Offered : \E r \in before.store :
          /\ Key(r) = Key(out.offered[i])
          /\ r.content # out.offered[i].content
          /\ r.embedding # out.offered[i].embedding
          /\ r.author # out.offered[i].author
          /\ r \in store

\* the file the last pass of the prepare loop worked on
FileOfPass == before.todo[out.filename]

IngestedBefore == <<out.filename, FileOfPass>> \in before.ingested

\* C2: a document none of whose keys is in the table reports inserted = N
\* and skipped = 0; a document that was ingested before under the same name
\* and has not changed reports inserted = 0 and skipped = N and leaves the
\* rows of the table as they were.
C2_ReingestReportsAllSkipped ==
    InsertDone =>
       /\ Keys({out.offered[i] : i \in Offered}) \cap Keys(before.store) = {}
             => out.inserted = Len(out.offered) /\ out.skipped = 0
       /\ IngestedBefore
             => /\ out.inserted = 0
                /\ out.skipped = Len(out.offered)
                /\ store = before.store

\* the same file with two content lines is ingested a second time, and the
\* table holds under one of its keys the row of another file content
C2_Witness ==
    /\ InsertDone
    /\ IngestedBefore
    /\ Len(out.offered) = 2
    /\ out.inserted = 0
    /\ out.skipped = 2
    /\ \E i \in Offered : out.offered[i] \notin store

\* the positions of the batch whose key the table did not hold
AbsentBefore ==
    {i \in Offered : Key(out.offered[i]) \notin Keys(before.store)}

\* C3: the insertion of a batch of N rows is never aborted by a duplicate
\* key (the run goes on), inserted is the number of batch keys the table did
\* not hold, skipped is N - inserted, both are >= 0 and sum to N, and a
\* batch of existing keys only reports (0, N).
C3_ExactCounts ==
    InsertDone =>
       /\ proc = "prepare"
       /\ out.inserted = Cardinality(AbsentBefore)
       /\ out.skipped = Len(out.offered) - out.inserted
       /\ out.inserted >= 0
       /\ out.skipped >= 0
       /\ out.inserted + out.skipped = Len(out.offered)
       /\ Keys(store) = Keys(before.store)
                           \cup Keys({out.offered[i] : i \in Offered})
       /\ AbsentBefore = {} =>
             out.inserted = 0 /\ out.skipped = Len(out.offered)

\* a batch whose first key is in the table and whose second key is not
C3_Witness ==
    /\ InsertDone
    /\ Len(out.offered) = 2
    /\ 1 \notin AbsentBefore
    /\ 2 \in AbsentBefore
    /\ out.inserted = 1
    /\ out.skipped = 1

Returned == {out.results[i] : i \in 1..Len(out.results)}

\* what a search that succeeds returns
SearchOK ==
    /\ out.ev = "found matches"
    /\ Len(out.results) = Min(out.k, Cardinality(store))
    /\ Returned \subseteq store
    /\ Cardinality(Returned) = Len(out.results)
    /\ \A i, j \in 1..Len(out.results) :
          i < j => SimGE(out.results[i].embedding, out.results[j].embedding,
                         out.qvec)
    /\ \A r \in Returned : \A r2 \in store \ Returned :
          SimGE(r.embedding, r2.embedding, out.qvec)

\* C4: for every query vector the embedder returns and every k >= 1 the
\* search returns min(k, S) distinct rows of the table, by non-increasing
\* similarity, none less similar than a row left out; no rows when the table
\* is empty, all rows when k > S.
C4_TopK == (out.searched /\ out.k >= 1) => SearchOK

StrictlyMoreSimilar(r, r2) == ~SimGE(r2.embedding, r.embedding, out.qvec)

\* k = 2 over four rows of three different similarities: the first result
\* beats the second, which beats a row left out
C4_Witness ==
    /\ out.ev = "found matches"
    /\ out.k = 2
    /\ Cardinality(store) = 4
    /\ Len(out.results) = 2
    /\ StrictlyMoreSimilar(out.results[1], out.results[2])
    /\ \E r2 \in store \ Returned : StrictlyMoreSimilar(out.results[2], r2)

PrepareFailures ==
    {"prepare: exception in parse_file", "prepare: exception in encode"}

\* C5: when parsing or embedding fails for a file, no row of that file is
\* written and the run goes on with the files that remain.
C5_FileFailureIsolated ==
    out.ev \in PrepareFailures =>
       /\ store = before.store
       /\ proc = "prepare"
       /\ DOMAIN todo = DOMAIN before.todo \ {out.filename}

FindFailures == {"find: exception in encode", "find: exception in execute"}

Goodbyes == {"goodbye (end of input)", "goodbye (exit)"}

\* C6: when the embedder or the search fails for a query the loop goes on;
\* the loop ends only on exit, quit or the end of the input.
C6_QueryFailureIsolated ==
    /\ out.ev \in FindFailures => proc = "find"
    /\ (before.proc = "find" /\ proc # "find") => out.ev \in Goodbyes

SchemaEvents ==
    {"table created/verified", "directory not found", "no text files found"}

\* C8: every step keeps every row of the table as it is; create_table and
\* every step of a query session leave the table exactly as it was.
C8_StoreOnlyGrows ==
    /\ before.store \subseteq store
    /\ out.ev \in SchemaEvents => store = before.store
    /\ (before.proc = "find" \/ proc = "find") => store = before.store

\* create_table ran on a table that held rows
C8_Witness ==
    /\ out.ev = "table created/verified"
    /\ before.store # {}
    /\ store = before.store

\* C9: a file without content lines calls no embedder, writes nothing,
\* leaves the three line counters as they were, and the run goes on; a query
\* that is empty or blank calls neither embedder nor store and the loop
\* prompts again.
C9_EmptyInputIsNoOp ==
    /\ out.ev = "no content found" =>
          /\ ~out.encoded
          /\ store = before.store
          /\ totals.lines_processed = before.totals.lines_processed
          /\ totals.lines_inserted = before.totals.lines_inserted
          /\ totals.lines_skipped = before.totals.lines_skipped
          /\ proc = "prepare"
          /\ DOMAIN todo = DOMAIN before.todo \ {out.filename}
    /\ (out.asked /\ Strip(out.query) = <<>>) =>
          /\ out.ev = "prompt again"
          /\ ~out.encoded
          /\ ~out.searched
          /\ proc = "find"
          /\ store = before.store

\* a query of two blanks was read
C9_Witness ==
    /\ out.asked
    /\ out.query = <<SP, SP>>
    /\ out.ev = "prompt again"

\* the line numbers of the file given to parse_file
LineNums == 1..Len(parseIn)

HoldsStart(i) == Contains(UpperStr(parseIn[i]), StartMarker)

HoldsEnd(i) == Contains(UpperStr(parseIn[i]), EndMarker)

\* the first line number of a set, or the one past the last line
First(S) == IF S = {} THEN Len(parseIn) + 1
            ELSE CHOOSE i \in S : \A j \in S : i <= j

FirstStart == First({i \in LineNums : HoldsStart(i)})

\* the first line that holds the end phrase
FirstEnd == First({i \in LineNums : HoldsEnd(i)})

\* the first line that holds the end phrase and not the start phrase: the
\* end of the file when there is none
FirstPureEnd == First({i \in LineNums : HoldsEnd(i) /\ ~HoldsStart(i)})

Trimmed(i) == Strip(parseIn[i])

\* the value returned is the lines of numbers in S, trimmed, each with its
\* number, in increasing order of number
ReturnsExactly(S) ==
    /\ Len(parseOut.lines) = Cardinality(S)
    /\ \A n \in 1..Len(parseOut.lines) :
          /\ parseOut.lines[n][1] \in S
          /\ parseOut.lines[n][2] = Trimmed(parseOut.lines[n][1])
    /\ \A n, m \in 1..Len(parseOut.lines) :
          n < m => parseOut.lines[n][1] < parseOut.lines[m][1]

\* C10 as stated: the content is the non-empty trimmed lines strictly
\* between the start marker line and the end marker line; without the pair
\* of markers nothing is returned.
C10_Original ==
    out.ev = "parsed" =>
       ReturnsExactly(
          {i \in LineNums :
              /\ FirstEnd <= Len(parseIn)
              /\ FirstStart < i
              /\ i < FirstEnd
              /\ ~HoldsStart(i)
              /\ Trimmed(i) # <<>>})

\* C10: the content is the non-empty trimmed lines, each with its 1-based
\* number and in increasing order of number, that lie after the first line
\* holding the start phrase and before the first line holding the end
\* phrase but not the start phrase, or before the end of the file when no
\* such line exists; lines holding the start phrase are never returned.
C10_ContentBetweenMarkers ==
    out.ev = "parsed" =>
       ReturnsExactly(
          {i \in LineNums :
              /\ FirstStart < i
              /\ i < FirstPureEnd
              /\ ~HoldsStart(i)
              /\ Trimmed(i) # <<>>})

\* start marker, two content lines of which one is padded, end marker
C10_Witness ==
    /\ out.ev = "parsed"
    /\ Len(parseIn) = 4
    /\ HoldsStart(1)
    /\ HoldsEnd(4)
    /\ parseOut.lines = << <<2, <<"x">> >>, <<3, <<"y">> >> >>
====
